---- MODULE Spec2Model ----
(***************************************************************************)
(* Model of src/header.rs: the Ethereum block header value type, its       *)
(* partial variant, and Header::hash, which memoises Keccak-256 of the     *)
(* RLP encoding in a process-wide LRU cache guarded by a mutex.            *)
(*                                                                         *)
(* Fixed-width values (H256, H160, H64, Bloom) are byte sequences of their *)
(* real width.  U256 and u64 are held as big-endian byte sequences of      *)
(* their full width (32 and 8 bytes); the encoder strips the leading zero  *)
(* bytes exactly as the rlp crate does.                                    *)
(***************************************************************************)
EXTENDS Integers, Sequences, FiniteSets, TLC

VARIABLES
    pc,           \* per thread: position inside Header::hash
    self,         \* per thread: &self, a reference to one of the callers' headers
    rlp_encoded,  \* per thread: the local `rlp_encoded` (<<>> = not yet encoded)
    digest,       \* per thread: value produced by the closure (None until it ran)
    mutex,        \* the parking_lot Mutex: Some(holder), or None when unlocked
    cache,        \* the LruCache: sequence of [key, val], most recently used first
    outcome,      \* ghost, per thread: "hit" / "miss" of the current call
    recency,      \* ghost: the cache_size most recently looked up headers, by number,
                  \*        most recent use first
    returned,     \* per header number, the set of values its hash calls have returned
    phase,        \* sequential driver: its position
    h,            \* sequential driver: a header
    g,            \* sequential driver: h with exactly one field changed
    field,        \* sequential driver: the field in which g differs from h
    partial,      \* sequential driver: PartialHeader::from(g.clone())
    rebuilt,      \* sequential driver: Header::new(partial, g.ommers_hash, g.transactions_root)
    out,          \* sequential driver: <<h.hash(), g.hash()>>
    scache        \* sequential driver: the cache its hash calls go through

concVars == <<pc, self, rlp_encoded, digest, mutex, cache, outcome,
              recency, returned>>
seqVars == <<phase, h, g, field, partial, rebuilt, out, scache>>
vars == <<pc, self, rlp_encoded, digest, mutex, cache, outcome,
          recency, returned, phase, h, g, field, partial, rebuilt, out, scache>>

----------------------------------------------------------------------------
(* Bounds *)

NumThreads == 2
cache_size == 2

(* Widths of the ethereum_types values *)
H256Len == 32
H160Len == 20
H64Len == 8
BloomLen == 256
U256Len == 32
U64Len == 8

Threads == 1..NumThreads

(* Option<T> *)
None == <<>>
Some(x) == <<x>>

----------------------------------------------------------------------------
(* Byte strings *)

(* n bytes b; n zero bytes; n zero bytes with byte b at position pos *)
RECURSIVE Filled(_, _)
Filled(n, b) ==
    IF n = 0 THEN <<>>
    ELSE IF n = 1 THEN <<b>>
    ELSE Filled(n \div 2, b) \o Filled(n - n \div 2, b)

Zeros(n) == Filled(n, 0)
WithByte(n, pos, b) == Zeros(pos - 1) \o <<b>> \o Zeros(n - pos)

(* the number of zero bytes before the first non-zero byte *)
LeadingZeros(s) ==
    IF \A i \in 1..Len(s) : s[i] = 0 THEN Len(s)
    ELSE (CHOOSE i \in 1..Len(s) : s[i] # 0 /\ \A j \in 1..(i - 1) : s[j] = 0) - 1

(* buffer[leading_empty_bytes..] *)
StripLeadingZeros(s) == SubSeq(s, LeadingZeros(s) + 1, Len(s))

(* big-endian bytes of a length, without leading zero bytes *)
RECURSIVE LenBytes(_)
LenBytes(n) == IF n = 0 THEN <<>> ELSE LenBytes(n \div 256) \o <<n % 256>>

----------------------------------------------------------------------------
(* RLP, as the rlp crate's RlpStream does it *)

(* a byte string: a single byte below 0x80 is its own encoding; otherwise *)
(* 0x80 + length, or 0xb7 + length of the length and the length           *)
encode_value(bytes) ==
    LET header[n \in Nat] ==
            IF n <= 55 THEN <<128 + n>>
            ELSE <<183 + Len(LenBytes(n))>> \o LenBytes(n)
    IN IF Len(bytes) = 1 /\ bytes[1] < 128 THEN bytes
       ELSE header[Len(bytes)] \o bytes

(* a list: 0xc0 + payload length, or 0xf7 + length of the length and the length *)
encode_list(payload) ==
    LET header[n \in Nat] ==
            IF n <= 55 THEN <<192 + n>>
            ELSE <<247 + Len(LenBytes(n))>> \o LenBytes(n)
    IN header[Len(payload)] \o payload

(* fixed hashes and byte vectors are encoded whole; integers without their *)
(* leading zero bytes                                                      *)
encode_fixed(x) == encode_value(x)
encode_bytes(x) == encode_value(x)
(* mutation: the integer is cut down to its lowest byte *)
encode_uint_truncating(x) == encode_value(StripLeadingZeros(SubSeq(x, Len(x), Len(x))))
encode_uint(x) == encode_value(StripLeadingZeros(x))

----------------------------------------------------------------------------
(* Header and PartialHeader *)

HeaderFields ==
    <<"parent_hash", "ommers_hash", "beneficiary", "state_root",
      "transactions_root", "receipts_root", "logs_bloom", "difficulty",
      "number", "gas_limit", "gas_used", "timestamp", "extra_data",
      "mix_hash", "nonce", "base_fee">>

PartialHeaderFields ==
    <<"parent_hash", "beneficiary", "state_root", "receipts_root",
      "logs_bloom", "difficulty", "number", "gas_limit", "gas_used",
      "timestamp", "extra_data", "mix_hash", "nonce", "base_fee">>

FieldKind(f) ==
    CASE f \in {"difficulty", "number", "gas_limit", "gas_used", "timestamp",
                "base_fee"} -> "uint"
      [] f = "extra_data" -> "bytes"
      [] OTHER -> "fixed"

FieldWidth(f) ==
    CASE f \in {"parent_hash", "ommers_hash", "state_root", "transactions_root",
                "receipts_root", "mix_hash"} -> H256Len
      [] f = "beneficiary" -> H160Len
      [] f = "logs_bloom" -> BloomLen
      [] f = "nonce" -> H64Len
      [] f = "timestamp" -> U64Len
      [] f \in {"difficulty", "number", "gas_limit", "gas_used", "base_fee"} -> U256Len
      [] OTHER -> 0

(* #[derive(RlpEncodable)]: a list of every field, in declaration order *)
rlp_encode(hdr) ==
    encode_list(
        encode_fixed(hdr.parent_hash) \o
        encode_fixed(hdr.ommers_hash) \o
        encode_fixed(hdr.beneficiary) \o
        encode_fixed(hdr.state_root) \o
        encode_fixed(hdr.transactions_root) \o
        encode_fixed(hdr.receipts_root) \o
        encode_fixed(hdr.logs_bloom) \o
        encode_uint(hdr.difficulty) \o
        encode_uint(hdr.number) \o
        encode_uint(hdr.gas_limit) \o
        encode_uint(hdr.gas_used) \o
        encode_uint(hdr.timestamp) \o
        encode_bytes(hdr.extra_data) \o
        encode_fixed(hdr.mix_hash) \o
        encode_fixed(hdr.nonce) \o
        encode_uint(hdr.base_fee))

(* mutation: the two supplied values land in each other's field *)
HeaderNew_swapped(partial_header, ommers_hash, transactions_root) ==
    [parent_hash       |-> partial_header.parent_hash,
     ommers_hash       |-> transactions_root,
     beneficiary       |-> partial_header.beneficiary,
     state_root        |-> partial_header.state_root,
     transactions_root |-> ommers_hash,
     receipts_root     |-> partial_header.receipts_root,
     logs_bloom        |-> partial_header.logs_bloom,
     difficulty        |-> partial_header.difficulty,
     number            |-> partial_header.number,
     gas_limit         |-> partial_header.gas_limit,
     gas_used          |-> partial_header.gas_used,
     timestamp         |-> partial_header.timestamp,
     extra_data        |-> partial_header.extra_data,
     mix_hash          |-> partial_header.mix_hash,
     nonce             |-> partial_header.nonce,
     base_fee          |-> partial_header.base_fee]

HeaderNew(partial_header, ommers_hash, transactions_root) ==
    [parent_hash       |-> partial_header.parent_hash,
     ommers_hash       |-> ommers_hash,
     beneficiary       |-> partial_header.beneficiary,
     state_root        |-> partial_header.state_root,
     transactions_root |-> transactions_root,
     receipts_root     |-> partial_header.receipts_root,
     logs_bloom        |-> partial_header.logs_bloom,
     difficulty        |-> partial_header.difficulty,
     number            |-> partial_header.number,
     gas_limit         |-> partial_header.gas_limit,
     gas_used          |-> partial_header.gas_used,
     timestamp         |-> partial_header.timestamp,
     extra_data        |-> partial_header.extra_data,
     mix_hash          |-> partial_header.mix_hash,
     nonce             |-> partial_header.nonce,
     base_fee          |-> partial_header.base_fee]

PartialHeaderFrom(header) ==
    [parent_hash   |-> header.parent_hash,
     beneficiary   |-> header.beneficiary,
     state_root    |-> header.state_root,
     receipts_root |-> header.receipts_root,
     logs_bloom    |-> header.logs_bloom,
     difficulty    |-> header.difficulty,
     number        |-> header.number,
     gas_limit     |-> header.gas_limit,
     gas_used      |-> header.gas_used,
     timestamp     |-> header.timestamp,
     extra_data    |-> header.extra_data,
     mix_hash      |-> header.mix_hash,
     nonce         |-> header.nonce,
     base_fee      |-> header.base_fee]

----------------------------------------------------------------------------
(* Keccak-256.  The sha3 primitive is abstracted by a position-weighted     *)
(* digest of the input bytes: deterministic, a function of the bytes       *)
(* alone, and sensitive to every byte and to the length.                   *)

Keccak256(bytes) ==
    LET Absorb[r \in (1..Len(bytes)) \X (1..Len(bytes))] ==
            IF r[1] = r[2]
            THEN ((bytes[r[1]] + 1) * ((r[1] * r[1] * 31 + r[1] * 7 + 1) % 8388593)) % 8388593
            ELSE (Absorb[<<r[1], (r[1] + r[2]) \div 2>>]
                    + Absorb[<<(r[1] + r[2]) \div 2 + 1, r[2]>>]) % 8388593
    IN IF bytes = <<>> THEN 0 ELSE Absorb[<<1, Len(bytes)>>]

----------------------------------------------------------------------------
(* lru::LruCache<Vec<u8>, H256>: entries in recency order, head first *)

LruNew == <<>>

Keys(c) == {c[i].key : i \in 1..Len(c)}
(* mutation: the lookup never finds the key *)
contains_never(c, k) == FALSE
contains(c, k) == k \in Keys(c)
IndexOf(c, k) == CHOOSE i \in 1..Len(c) : c[i].key = k
Without(c, i) == SubSeq(c, 1, i - 1) \o SubSeq(c, i + 1, Len(c))

(* mutation: the reference is to the node at the tail *)
node_val_tail(c, k) == c[Len(c)].val

(* the value of the node the returned reference points to *)
node_val(c, k) == c[IndexOf(c, k)].val

(* mutation: a hit leaves the node where it is *)
detach_attach_noop(c, k) == c

(* hit: detach(node); attach(node) *)
detach_attach(c, k) == <<c[IndexOf(c, k)]>> \o Without(c, IndexOf(c, k))

(* mutation: nothing is ever taken out *)
replace_or_create_node_growing(c, k, v) == <<[key |-> k, val |-> v]>> \o c

(* mutation: the reused node keeps the value it carried *)
replace_or_create_node_stale(c, k, v) ==
    IF Len(c) = cache_size
    THEN <<[key |-> k, val |-> c[Len(c)].val]>> \o SubSeq(c, 1, Len(c) - 1)
    ELSE <<[key |-> k, val |-> v]>> \o c

(* miss: at capacity the tail node is taken out and reused, else a new node; *)
(* the node then carries (k, v) and is attached at the head                  *)
replace_or_create_node(c, k, v) ==
    <<[key |-> k, val |-> v]>> \o
        (IF Len(c) = cache_size THEN SubSeq(c, 1, Len(c) - 1) ELSE c)

(* LruCache::get_or_insert(k, || Keccak256(k)) as one step: <<cache', &value>> *)
get_or_insert(c, k) ==
    IF contains(c, k)
    THEN <<detach_attach(c, k), node_val(detach_attach(c, k), k)>>
    ELSE LET v == Keccak256(k)
             c2 == replace_or_create_node(c, k, v)
         IN <<c2, node_val(c2, k)>>

(* ghost: the reference order of use.  A use puts the header first; only the *)
(* cache_size most recently used are remembered                             *)
Touch(r, k) ==
    LET moved == <<k>> \o SelectSeq(r, LAMBDA x : x # k)
    IN SubSeq(moved, 1, IF Len(moved) > cache_size THEN cache_size ELSE Len(moved))

----------------------------------------------------------------------------
(* Header values the callers use *)

ZeroValue(f) == IF f = "extra_data" THEN <<>> ELSE Zeros(FieldWidth(f))

(* the all-zero header with empty extra_data *)
ZeroHeader == [f \in {HeaderFields[i] : i \in 1..Len(HeaderFields)} |-> ZeroValue(f)]

FieldIndex(f) == CHOOSE i \in 1..Len(HeaderFields) : HeaderFields[i] = f

(* a header whose sixteen fields all carry different contents *)
MixedHeader ==
    [f \in DOMAIN ZeroHeader |->
        IF f = "extra_data" THEN <<222, 173>>
        ELSE WithByte(FieldWidth(f), FieldWidth(f), FieldIndex(f))]

(* the headers the concurrent callers own; a call holds a reference to one *)
HashedHeader ==
    <<ZeroHeader,
      [ZeroHeader EXCEPT !.number = WithByte(U256Len, U256Len, 1)],
      [ZeroHeader EXCEPT !.extra_data = <<1>>]>>

HeaderIds == 1..Len(HashedHeader)
NoHeader == <<>>

(* the values a single field is changed to *)
FieldValues(f) ==
    CASE FieldKind(f) = "fixed" ->
            {Zeros(FieldWidth(f)),
             WithByte(FieldWidth(f), FieldWidth(f), 1),
             WithByte(FieldWidth(f), 1, 128)}
      [] FieldKind(f) = "uint" ->
            {Zeros(FieldWidth(f)),
             WithByte(FieldWidth(f), FieldWidth(f), 1),
             WithByte(FieldWidth(f), FieldWidth(f), 128),
             WithByte(FieldWidth(f), FieldWidth(f) - 1, 1),
             Filled(FieldWidth(f), 255)}
      [] OTHER ->
            {<<>>, <<0>>, <<1>>, <<128>>, <<0, 0>>, <<1, 0>>, Filled(56, 7)}

----------------------------------------------------------------------------
(* Header::hash, called concurrently *)

Idle == <<>>

Init ==
    /\ pc = [t \in Threads |-> "idle"]
    /\ self = [t \in Threads |-> NoHeader]
    /\ rlp_encoded = [t \in Threads |-> <<>>]
    /\ digest = [t \in Threads |-> None]
    /\ mutex = None
    /\ cache = LruNew
    /\ outcome = [t \in Threads |-> "none"]
    /\ recency = <<>>
    /\ returned = [i \in HeaderIds |-> {}]
    /\ phase = "off"
    /\ h = Idle /\ g = Idle /\ field = Idle /\ partial = Idle /\ rebuilt = Idle
    /\ out = Idle /\ scache = Idle

(* a caller invokes HashedHeader[i].hash(); the encoding starts *)
Call(t, i) ==
    /\ pc[t] = "idle"
    /\ pc' = [pc EXCEPT ![t] = "encode"]
    /\ self' = [self EXCEPT ![t] = i]
    /\ UNCHANGED <<rlp_encoded, digest, mutex, cache, outcome, recency, returned>>

(* let rlp_encoded = &rlp::encode(self); *)
Encode(t) ==
    /\ pc[t] = "encode"
    /\ rlp_encoded' = [rlp_encoded EXCEPT ![t] = rlp_encode(HashedHeader[self[t]])]
    /\ pc' = [pc EXCEPT ![t] = "lock"]
    /\ UNCHANGED <<self, digest, mutex, cache, outcome, recency, returned>>

(* mutation: the lock is taken before the encoding is made *)
ReadyToLock_early(t) == pc[t] \in {"encode", "lock"}

(* mutation: the lock excludes nobody *)
CanLock_always(t) == TRUE

(* header_hash_cache().lock(): blocks while another thread holds the mutex *)
ReadyToLock(t) == pc[t] = "lock"
CanLock(t) == mutex = None

Lock(t) ==
    /\ ReadyToLock(t)
    /\ CanLock(t)
    /\ mutex' = Some(t)
    /\ pc' = [pc EXCEPT ![t] = "get_or_insert"]
    /\ UNCHANGED <<self, rlp_encoded, digest, cache, outcome, recency, returned>>

(* get_or_insert: the map lookup; on a hit the node moves to the head *)
Lookup(t) ==
    /\ pc[t] = "get_or_insert"
    /\ IF contains(cache, rlp_encoded[t])
       THEN /\ cache' = detach_attach(cache, rlp_encoded[t])
            /\ recency' = Touch(recency, self[t])
            /\ outcome' = [outcome EXCEPT ![t] = "hit"]
            /\ pc' = [pc EXCEPT ![t] = "clone"]
       ELSE /\ outcome' = [outcome EXCEPT ![t] = "miss"]
            /\ pc' = [pc EXCEPT ![t] = "closure"]
            /\ UNCHANGED <<cache, recency>>
    /\ UNCHANGED <<self, rlp_encoded, digest, mutex, returned>>

(* get_or_insert, miss: let v = f(), the closure digests rlp_encoded; then *)
(* replace_or_create_node(k, v), attach, map.insert                        *)
Closure(t) ==
    /\ pc[t] = "closure"
    /\ LET v == Keccak256(rlp_encoded[t])
       IN /\ digest' = [digest EXCEPT ![t] = Some(v)]
          /\ cache' = replace_or_create_node(cache, rlp_encoded[t], v)
    /\ recency' = Touch(recency, self[t])
    /\ pc' = [pc EXCEPT ![t] = "clone"]
    /\ UNCHANGED <<self, rlp_encoded, mutex, outcome, returned>>

(* mutation: the guard is leaked, the mutex stays locked *)
unlock_leaked(t) == mutex

(* .clone() of the referenced value is returned; the guard and the locals are *)
(* dropped at the end of the expression                                       *)
unlock(t) == None

Return(t) ==
    /\ pc[t] = "clone"
    /\ returned' = [returned EXCEPT ![self[t]] = @ \cup {node_val(cache, rlp_encoded[t])}]
    /\ mutex' = unlock(t)
    /\ self' = [self EXCEPT ![t] = NoHeader]
    /\ rlp_encoded' = [rlp_encoded EXCEPT ![t] = <<>>]
    /\ digest' = [digest EXCEPT ![t] = None]
    /\ outcome' = [outcome EXCEPT ![t] = "none"]
    /\ pc' = [pc EXCEPT ![t] = "idle"]
    /\ UNCHANGED <<cache, recency>>

Step(t) == Encode(t) \/ Lookup(t) \/ Closure(t) \/ Return(t)

Next ==
    /\ \E t \in Threads :
          \/ \E i \in HeaderIds : Call(t, i)
          \/ Encode(t)
          \/ Lock(t)
          \/ Lookup(t)
          \/ Closure(t)
          \/ Return(t)
    /\ UNCHANGED seqVars

Spec == Init /\ [][Next]_vars

(* the threads are scheduled fairly and parking_lot hands the mutex over fairly *)
FairSpec ==
    /\ Spec
    /\ \A t \in Threads : WF_vars(Step(t) /\ UNCHANGED seqVars)
    /\ \A t \in Threads : SF_vars(Lock(t) /\ UNCHANGED seqVars)

----------------------------------------------------------------------------
(* A single caller: decomposes and recombines a header, then hashes two     *)
(* headers that differ in one field through a cache in some earlier state.  *)

(* Header::hash as one step for a caller alone: <<cache', returned digest>> *)
hash(c, hdr) == get_or_insert(c, rlp_encode(hdr))

Entry(hdr) == [key |-> rlp_encode(hdr), val |-> Keccak256(rlp_encode(hdr))]

(* caches left behind by earlier hash calls: empty, warmed with the headers *)
(* about to be hashed, warmed with other headers                            *)
EarlierCaches(a, b) ==
    {LruNew, <<Entry(a)>>, <<Entry(b)>>, <<Entry(HashedHeader[2]), Entry(HashedHeader[3])>>}

SeqInit ==
    /\ pc = [t \in Threads |-> "idle"]
    /\ self = [t \in Threads |-> NoHeader]
    /\ rlp_encoded = [t \in Threads |-> <<>>]
    /\ digest = [t \in Threads |-> None]
    /\ mutex = None
    /\ cache = LruNew
    /\ outcome = [t \in Threads |-> "none"]
    /\ recency = <<>>
    /\ returned = [i \in HeaderIds |-> {}]
    /\ phase = "start"
    /\ h \in {ZeroHeader, MixedHeader}
    /\ field \in DOMAIN ZeroHeader
    /\ \E v \in FieldValues(field) \ {h[field]} : g = [h EXCEPT ![field] = v]
    /\ scache \in EarlierCaches(h, g)
    /\ partial = Idle /\ rebuilt = Idle /\ out = Idle

From ==
    /\ phase = "start"
    /\ partial' = PartialHeaderFrom(g)
    /\ phase' = "partial"
    /\ UNCHANGED <<h, g, field, rebuilt, out, scache>>

New ==
    /\ phase = "partial"
    /\ rebuilt' = HeaderNew(partial, g.ommers_hash, g.transactions_root)
    /\ phase' = "rebuilt"
    /\ UNCHANGED <<h, g, field, partial, out, scache>>

HashFirst ==
    /\ phase = "rebuilt"
    /\ out' = <<hash(scache, h)[2]>>
    /\ scache' = hash(scache, h)[1]
    /\ phase' = "hashed"
    /\ UNCHANGED <<h, g, field, partial, rebuilt>>

HashSecond ==
    /\ phase = "hashed"
    /\ out' = Append(out, hash(scache, g)[2])
    /\ scache' = hash(scache, g)[1]
    /\ phase' = "done"
    /\ UNCHANGED <<h, g, field, partial, rebuilt>>

SeqNext == (From \/ New \/ HashFirst \/ HashSecond) /\ UNCHANGED concVars

SeqSpec == SeqInit /\ [][SeqNext]_vars

----------------------------------------------------------------------------
(* Reference values for the properties *)

HeaderKey == [i \in HeaderIds |-> rlp_encode(HashedHeader[i])]
FreshDigest == [i \in HeaderIds |-> Keccak256(rlp_encode(HashedHeader[i]))]
Holding(t) == pc[t] \in {"get_or_insert", "closure", "clone"}
Evicted(i) == returned[i] # {} /\ HeaderKey[i] \notin Keys(cache)

(* C1: every value a hash call has returned for a header, on a hit or on a *)
(* miss and in every state of the cache, is Keccak-256 of the header's     *)
(* canonical encoding, the value a fresh computation gives.                *)
C1_CacheTransparent ==
    /\ \A i \in HeaderIds : returned[i] \subseteq {FreshDigest[i]}
    /\ \A t \in Threads :
          pc[t] = "clone" => node_val(cache, rlp_encoded[t]) = FreshDigest[self[t]]

C1_Witness ==
    \E t \in Threads :
        /\ pc[t] = "clone"
        /\ outcome[t] = "hit"
        /\ returned[self[t]] # {}
        /\ \E i \in HeaderIds : Evicted(i)

(* C2: the cache never holds more entries than its capacity, however many  *)
(* distinct headers are hashed and from however many threads.              *)
C2_Bounded == Len(cache) <= cache_size

C2_Witness ==
    /\ Len(cache) = cache_size
    /\ \E i \in HeaderIds : Evicted(i)

(* C3: all the hash calls on one header return one and the same digest,    *)
(* sequentially or concurrently, across evictions.                         *)
C3_Deterministic == \A i \in HeaderIds : Cardinality(returned[i]) <= 1

C3_Witness ==
    \E t, u \in Threads :
        /\ t # u
        /\ pc[t] = "clone" /\ outcome[t] = "miss"
        /\ returned[self[t]] # {}
        /\ pc[u] = "lock" /\ self[u] = self[t]

(* C4: at most one thread is inside the cache's lookup-or-insert, and it is *)
(* the thread that holds the mutex.                                         *)
C4_MutualExclusion ==
    /\ Cardinality({t \in Threads : Holding(t)}) <= 1
    /\ \A t \in Threads : Holding(t) <=> mutex = Some(t)

C4_Witness ==
    \E t, u \in Threads :
        /\ t # u
        /\ Holding(t)
        /\ pc[u] = "lock"

(* C5: the cache holds its entries in order of last use; a miss at capacity *)
(* evicts exactly the entry whose last hit or insertion is the oldest, and  *)
(* a hit moves its key away from the eviction end.                          *)
CacheInUseOrder ==
    [j \in 1..Len(cache) |-> cache[j].key] = [j \in 1..Len(recency) |-> HeaderKey[recency[j]]]

LruStep ==
    \A t \in Threads :
        /\ (pc[t] = "closure" /\ pc'[t] = "clone" /\ Len(cache) = cache_size)
              => /\ CacheInUseOrder
                 /\ Keys(cache) \ Keys(cache') = {HeaderKey[recency[Len(recency)]]}
                 /\ Len(cache') = cache_size
        /\ (pc[t] = "get_or_insert" /\ pc'[t] = "clone")
              => /\ Keys(cache') = Keys(cache)
                 /\ Len(cache') > 1 => cache'[Len(cache')].key # rlp_encoded[t]
        /\ pc'[t] = "clone" => CacheInUseOrder'

C5_LruEviction == [][LruStep]_vars

C5_Witness ==
    \E t \in Threads :
        /\ pc[t] = "clone" /\ outcome[t] = "miss"
        /\ Len(cache) = cache_size
        /\ \E i \in HeaderIds : Evicted(i) /\ returned[self[t]] # {}

(* C6: a digest is computed only for a key that is absent, by one thread at *)
(* a time, once per miss and never on a hit; whoever reaches the return has *)
(* the key in the cache.                                                    *)
C6_AtomicGetOrCompute ==
    \A t \in Threads :
        /\ pc[t] = "closure" =>
              /\ rlp_encoded[t] \notin Keys(cache)
              /\ outcome[t] = "miss" /\ digest[t] = None
              /\ \A u \in Threads \ {t} : pc[u] # "closure"
        /\ pc[t] = "clone" =>
              /\ rlp_encoded[t] \in Keys(cache)
              /\ outcome[t] = "hit" => digest[t] = None
              /\ outcome[t] = "miss" => digest[t] = Some(cache[1].val)
        /\ pc[t] \in {"idle", "encode", "lock", "get_or_insert"} => digest[t] = None

C6_Witness ==
    \E t, u \in Threads :
        /\ t # u
        /\ pc[t] = "clone" /\ outcome[t] = "miss" /\ returned[self[t]] = {}
        /\ pc[u] = "lock" /\ self[u] = self[t]

(* C7, as stated: no thread holds the lock while an encoding or a digest    *)
(* computation of its call is in progress.                                  *)
C7_LockNeverAcrossEncodeOrDigest ==
    \A t \in Threads : mutex = Some(t) => pc[t] \notin {"encode", "closure"}

(* C7, amended: the lock is never held while the holder's encoding is in    *)
(* progress or outstanding; the digest of a missing key is computed with    *)
(* the lock held.                                                           *)
C7_LockNeverAcrossEncode ==
    \A t \in Threads :
        /\ mutex = Some(t) => pc[t] # "encode" /\ rlp_encoded[t] # <<>>
        /\ pc[t] = "closure" => mutex = Some(t)

C7_Witness ==
    \E t, u \in Threads :
        /\ t # u
        /\ pc[t] = "closure" /\ mutex = Some(t)
        /\ pc[u] = "encode"

(* C8: taking a header apart and putting it together again with its own     *)
(* ommers_hash and transactions_root gives the header back, field for field. *)
C8_RoundTrip ==
    phase \in {"rebuilt", "hashed", "done"} =>
        /\ DOMAIN rebuilt = DOMAIN g
        /\ \A f \in DOMAIN g : rebuilt[f] = g[f]

C8_Witness ==
    /\ phase = "rebuilt"
    /\ DOMAIN partial = {PartialHeaderFields[i] : i \in 1..Len(PartialHeaderFields)}
    /\ g.ommers_hash # g.transactions_root
    /\ g.ommers_hash # ZeroHeader.ommers_hash

(* C9: two headers that differ in exactly one field have different          *)
(* encodings, sit under different keys and hash to different digests,       *)
(* whatever the cache held before.                                          *)
C9_Sensitive ==
    /\ phase # "off" =>
          /\ \A f \in DOMAIN h : (f = field) <=> (h[f] # g[f])
          /\ rlp_encode(h) # rlp_encode(g)
          /\ Keccak256(rlp_encode(h)) # Keccak256(rlp_encode(g))
    /\ phase = "done" =>
          /\ out[1] # out[2]
          /\ scache[1].key = rlp_encode(g)
          /\ scache[2].key = rlp_encode(h)

C9_Witness ==
    /\ phase = "done"
    /\ field = "logs_bloom"
    /\ g.logs_bloom = WithByte(BloomLen, BloomLen, 1)
    /\ h = MixedHeader

(* C10: under fair scheduling every thread is again and again outside a     *)
(* call and without the lock, so every call that has started returns having *)
(* released the lock it acquired; and some thread can always move.          *)
C10_EveryCallReturns ==
    /\ \A t \in Threads : []<>(pc[t] = "idle" /\ mutex # Some(t))
    /\ [](ENABLED Next)

C10_Witness ==
    \E t, u \in Threads :
        /\ t # u
        /\ mutex = Some(t) /\ pc[t] = "get_or_insert"
        /\ pc[u] = "lock" /\ self[u] # self[t]

====
